---- MODULE Spec2Model ----
(***************************************************************************)
(* Bottle label checker: the polling loop of main.py, the OPC UA nodes of  *)
(* the controller it talks to, and the contour test of check_label.        *)
(*                                                                         *)
(* An image is abstracted by what cv2.imread / adaptiveThreshold /         *)
(* findContours make of it: whether the file could be read, and the        *)
(* ordered list of contours, each with the vertex count of its             *)
(* approxPolyDP polygon, its contourArea, and the area its polygon         *)
(* encloses (which the program never computes).                            *)
(***************************************************************************)
EXTENDS Integers, Sequences, FiniteSets, TLC

\* ------------------------------------------------------------------ bounds
MaxContours == 2       \* contours per frame in the classifier specification

\* ------------------------------------------------------- program constants
WrapSession == 5       \* main.py:86  getSessionNumber() == 5
MinArea == 1000        \* main.py:59  1000 < area
MaxArea == 20000       \* main.py:59  area < 20000
LabelVertices == 4     \* main.py:59  len(approx) == 4

Sessions == 0..WrapSession
VertexCounts == {3, 4, 5}
Areas == {1000, 1001, 19999, 20000}
PolyAreas == {1000, 1001}
Contours == [nv : VertexCounts, area : Areas, parea : PolyAreas]

\* cv2.imread returns None for a file it cannot read
NoImage == [ok |-> FALSE, contours |-> <<>>]
Image(cs) == [ok |-> TRUE, contours |-> cs]
\* the frames the loop specification reads from imageName
BareFrame == Image(<<[nv |-> 5, area |-> 20000, parea |-> 1001]>>)
LabelFrame == Image(<<[nv |-> 5, area |-> 20000, parea |-> 1001],
                      [nv |-> 4, area |-> 1001, parea |-> 1001]>>)
LoopImages == {NoImage, BareFrame, LabelFrame}

SeqsUpTo(S, n) == UNION {[1..k -> S] : k \in 0..n}
ClassifierImages == {NoImage} \cup {Image(cs) : cs \in SeqsUpTo(Contours, MaxContours)}

VARIABLES
  pc,                \* position of the main loop
  lastSession,       \* global lastSession
  connected,         \* client is connected
  originalBottleImage,           \* global written by grabFrame
  originalBottleImageWithColour, \* overlay: the contours painted on it
  BottleDetected,    \* controller node read by checkSensor
  sessionNumber,     \* controller node read by getSessionNumber
  ExitScript,        \* controller node read by exitScript
  EjectBottle,       \* controller node written by activateEject
  imageFile,         \* what is stored under imageName
  cyc,               \* history: what the current / last iteration read and did
  nDisconnect,       \* history: calls of client.disconnect()
  bottleDone,        \* history: a capture/classify cycle was started for the bottle now reported
  scn,               \* history: leading iterations that followed the 3,4,4,5 scenario, -1 once one did not
  seenNonZero        \* history: getSessionNumber() has returned a non-zero id

vars == <<pc, lastSession, connected, originalBottleImage, originalBottleImageWithColour,
          BottleDetected, sessionNumber, ExitScript, EjectBottle, imageFile,
          cyc, nDisconnect, bottleDone, scn, seenNonZero>>

progVars == <<pc, lastSession, connected, originalBottleImage,
              originalBottleImageWithColour, EjectBottle, nDisconnect>>

\* ------------------------------------------------------------- classifier
\* mutant: any polygon with at least 4 vertices counts
IsLabel_AtLeastFour(contour) ==
  contour.nv >= LabelVertices /\ MinArea < contour.area /\ contour.area < MaxArea

\* mutant: the area interval is closed
IsLabel_Closed(contour) ==
  contour.nv = LabelVertices /\ MinArea <= contour.area /\ contour.area <= MaxArea

\* mutant: the area is taken of the polygon, cv2.contourArea(approx)
IsLabel_PolygonArea(contour) ==
  contour.nv = LabelVertices /\ MinArea < contour.parea /\ contour.parea < MaxArea

\* main.py:59
IsLabel(contour) ==
  contour.nv = LabelVertices /\ MinArea < contour.area /\ contour.area < MaxArea

\* mutant: no return inside the loop, the last accepted contour is the one kept
RECURSIVE FirstLabel_NoEarlyReturn(_, _)
FirstLabel_NoEarlyReturn(contours_list, i) ==
  IF i > Len(contours_list) THEN 0
  ELSE LET later == FirstLabel_NoEarlyReturn(contours_list, i + 1)
       IN IF later # 0 THEN later
          ELSE IF IsLabel(contours_list[i]) THEN i ELSE 0

\* index of the contour at which the for loop of check_label returns True, 0 if it runs out
RECURSIVE FirstLabel(_, _)
FirstLabel(contours_list, i) ==
  IF i > Len(contours_list) THEN 0
  ELSE IF IsLabel(contours_list[i]) THEN i
  ELSE FirstLabel(contours_list, i + 1)

check_label(contours_list) == FirstLabel(contours_list, 1) # 0

\* number of contours the for loop of check_label looks at
Examined(contours_list) ==
  IF check_label(contours_list) THEN FirstLabel(contours_list, 1) ELSE Len(contours_list)

\* contours drawn by one call of check_label
Drawn(contours_list) ==
  IF check_label(contours_list)
  THEN {contours_list[FirstLabel(contours_list, 1)]}
  ELSE {}

\* mutant: the "not" is missing, True is returned when a label was found
classifyCameraImage_Inverted(contours) == check_label(contours)

\* truthiness of the value classifyCameraImage returns (True, or None by falling off the end)
classifyCameraImage(contours) == ~check_label(contours)

\* ------------------------------------------------------------ history
NewCycle(last) ==
  [exit |-> -1, sens |-> -1, cmp |-> -1, same |-> TRUE, last0 |-> last,
   grab |-> -1, lbl |-> -1, cls |-> -1, img |-> NoImage, ej |-> FALSE, held |-> FALSE,
   exam |-> -1, drawn |-> {}]

B2N(b) == IF b THEN 1 ELSE 0

Processed(c) == c.grab # -1

\* the scenario: session ids seen by iterations 1..4 and the frame classified
ScnSession == <<3, 4, 4, 5>>
ScnFrame == <<LabelFrame, BareFrame, BareFrame, LabelFrame>>

ScnMatch(k, c) ==
  /\ c.sens = 1
  /\ c.cmp = ScnSession[k]
  /\ Processed(c) =>
       /\ c.same
       /\ c.img = ScnFrame[k]

\* value of scn after the iteration recorded in c has ended
ScnEnd(c) ==
  IF scn >= 0 /\ scn < Len(ScnSession) /\ ScnMatch(scn + 1, c) THEN scn + 1 ELSE -1

\* ------------------------------------------------------------------ Init
\* mutant: the tracked value starts at a sentinel that is no session id
Init_SentinelOutsideRange ==
  /\ pc = "exitCheck"
  /\ lastSession = -1
  /\ connected = TRUE
  /\ originalBottleImage = NoImage
  /\ originalBottleImageWithColour = {}
  /\ BottleDetected \in BOOLEAN
  /\ sessionNumber \in Sessions
  /\ ExitScript = FALSE
  /\ EjectBottle = FALSE
  /\ imageFile \in {BareFrame, LabelFrame}
  /\ cyc = NewCycle(-1)
  /\ nDisconnect = 0
  /\ bottleDone = FALSE
  /\ scn = 0
  /\ seenNonZero = FALSE

\* The state when the while loop is entered: connectOpcua() returned, and the image
\* was readable when main.py:10 loaded the overlay (originalBottleImageWithColour is
\* an image, nothing painted on it yet).  The controller may report any session id.
Init ==
  /\ pc = "exitCheck"
  /\ lastSession = 0
  /\ connected = TRUE
  /\ originalBottleImage = NoImage
  /\ originalBottleImageWithColour = {}
  /\ BottleDetected \in BOOLEAN
  /\ sessionNumber \in Sessions
  /\ ExitScript = FALSE
  /\ EjectBottle = FALSE
  /\ imageFile \in {BareFrame, LabelFrame}
  /\ cyc = NewCycle(0)
  /\ nDisconnect = 0
  /\ bottleDone = FALSE
  /\ scn = 0
  /\ seenNonZero = FALSE

\* ------------------------------------------------------------ main loop
\* mutant: the break is missing, the loop goes on after disconnecting
LoopExitScript_NoBreak ==
  /\ pc = "exitCheck"
  /\ IF ExitScript
     THEN /\ connected' = FALSE
          /\ nDisconnect' = nDisconnect + 1
          /\ pc' = "sensorCheck"
          /\ cyc' = [NewCycle(lastSession) EXCEPT !.exit = 1]
     ELSE /\ pc' = "sensorCheck"
          /\ cyc' = [NewCycle(lastSession) EXCEPT !.exit = 0, !.held = BottleDetected]
          /\ UNCHANGED <<connected, nDisconnect>>
  /\ UNCHANGED <<lastSession, originalBottleImage, originalBottleImageWithColour,
                 BottleDetected, sessionNumber, ExitScript, EjectBottle, imageFile,
                 bottleDone, scn>>
  /\ UNCHANGED seenNonZero

\* mutant: the test is inverted, the loop leaves when the flag is false
LoopExitScript_Inverted ==
  /\ pc = "exitCheck"
  /\ IF ~ExitScript
     THEN /\ connected' = FALSE
          /\ nDisconnect' = nDisconnect + 1
          /\ pc' = "done"
          /\ cyc' = [NewCycle(lastSession) EXCEPT !.exit = 0]
     ELSE /\ pc' = "sensorCheck"
          /\ cyc' = [NewCycle(lastSession) EXCEPT !.exit = 1, !.held = BottleDetected]
          /\ UNCHANGED <<connected, nDisconnect>>
  /\ UNCHANGED <<lastSession, originalBottleImage, originalBottleImageWithColour,
                 BottleDetected, sessionNumber, ExitScript, EjectBottle, imageFile,
                 bottleDone, scn>>
  /\ UNCHANGED seenNonZero

\* main.py:77-81  if (exitScript()): client.disconnect(); break
LoopExitScript ==
  /\ pc = "exitCheck"
  /\ IF ExitScript
     THEN /\ connected' = FALSE
          /\ nDisconnect' = nDisconnect + 1
          /\ pc' = "done"
          /\ cyc' = [NewCycle(lastSession) EXCEPT !.exit = 1]
     ELSE /\ pc' = "sensorCheck"
          /\ cyc' = [NewCycle(lastSession) EXCEPT !.exit = 0, !.held = BottleDetected]
          /\ UNCHANGED <<connected, nDisconnect>>
  /\ UNCHANGED <<lastSession, originalBottleImage, originalBottleImageWithColour,
                 BottleDetected, sessionNumber, ExitScript, EjectBottle, imageFile,
                 bottleDone, scn>>
  /\ UNCHANGED seenNonZero

\* mutant: grabFrame() and what follows are dedented out of the if, they run unguarded
LoopCheckSensor_GrabOutsideIf ==
  /\ pc = "sensorCheck"
  /\ cyc' = [cyc EXCEPT !.sens = B2N(BottleDetected)]
  /\ pc' = IF BottleDetected THEN "cmpSession" ELSE "grab"
  /\ UNCHANGED <<lastSession, connected, originalBottleImage, originalBottleImageWithColour,
                 BottleDetected, sessionNumber, ExitScript, EjectBottle, imageFile,
                 nDisconnect, bottleDone, scn>>
  /\ UNCHANGED seenNonZero

\* mutant: the sensor flag is read but not tested, the session comparison alone decides
LoopCheckSensor_NotTested ==
  /\ pc = "sensorCheck"
  /\ cyc' = [cyc EXCEPT !.sens = B2N(BottleDetected)]
  /\ pc' = "cmpSession"
  /\ UNCHANGED <<lastSession, connected, originalBottleImage, originalBottleImageWithColour,
                 BottleDetected, sessionNumber, ExitScript, EjectBottle, imageFile,
                 nDisconnect, bottleDone, scn>>
  /\ UNCHANGED seenNonZero

\* main.py:84  checkSensor() and ...   (the right operand is not evaluated on False)
LoopCheckSensor ==
  /\ pc = "sensorCheck"
  /\ LET c == [cyc EXCEPT !.sens = B2N(BottleDetected)] IN
       /\ cyc' = c
       /\ IF BottleDetected
          THEN pc' = "cmpSession" /\ scn' = scn
          ELSE pc' = "exitCheck" /\ scn' = ScnEnd(c)
  /\ UNCHANGED <<lastSession, connected, originalBottleImage, originalBottleImageWithColour,
                 BottleDetected, sessionNumber, ExitScript, EjectBottle, imageFile,
                 nDisconnect, bottleDone>>
  /\ UNCHANGED seenNonZero

\* mutant: the session comparison is missing, every detected bottle is processed
LoopCompareSession_NoDedup ==
  /\ pc = "cmpSession"
  /\ cyc' = [cyc EXCEPT !.cmp = sessionNumber]
  /\ pc' = "chk5"
  /\ bottleDone' = TRUE
  /\ UNCHANGED <<lastSession, connected, originalBottleImage, originalBottleImageWithColour,
                 BottleDetected, sessionNumber, ExitScript, EjectBottle, imageFile,
                 nDisconnect, scn>>
  /\ seenNonZero' = (seenNonZero \/ sessionNumber # 0)

\* main.py:84  ... and lastSession != getSessionNumber()
LoopCompareSession ==
  /\ pc = "cmpSession"
  /\ LET c == [cyc EXCEPT !.cmp = sessionNumber] IN
       /\ cyc' = c
       /\ IF lastSession # sessionNumber
          THEN pc' = "chk5" /\ bottleDone' = TRUE /\ scn' = scn
          ELSE pc' = "exitCheck" /\ bottleDone' = bottleDone /\ scn' = ScnEnd(c)
  /\ UNCHANGED <<lastSession, connected, originalBottleImage, originalBottleImageWithColour,
                 BottleDetected, sessionNumber, ExitScript, EjectBottle, imageFile,
                 nDisconnect>>
  /\ seenNonZero' = (seenNonZero \/ sessionNumber # 0)

\* mutant: the wrap test is missing, 5 is stored like any other id
LoopCheckFive_NoWrap ==
  /\ pc = "chk5"
  /\ cyc' = [cyc EXCEPT !.same = (cyc.same /\ sessionNumber = cyc.cmp)]
  /\ lastSession' = lastSession
  /\ pc' = "assign"
  /\ UNCHANGED <<connected, originalBottleImage, originalBottleImageWithColour,
                 BottleDetected, sessionNumber, ExitScript, EjectBottle, imageFile,
                 nDisconnect, bottleDone, scn>>
  /\ seenNonZero' = (seenNonZero \/ sessionNumber # 0)

\* main.py:86-87  if getSessionNumber() == 5: lastSession = 0
LoopCheckFive ==
  /\ pc = "chk5"
  /\ cyc' = [cyc EXCEPT !.same = (cyc.same /\ sessionNumber = cyc.cmp)]
  /\ IF sessionNumber = WrapSession
     THEN lastSession' = 0 /\ pc' = "grab"
     ELSE lastSession' = lastSession /\ pc' = "assign"
  /\ UNCHANGED <<connected, originalBottleImage, originalBottleImageWithColour,
                 BottleDetected, sessionNumber, ExitScript, EjectBottle, imageFile,
                 nDisconnect, bottleDone, scn>>
  /\ seenNonZero' = (seenNonZero \/ sessionNumber # 0)

\* main.py:88-89  else: lastSession = getSessionNumber()
LoopAssignSession ==
  /\ pc = "assign"
  /\ cyc' = [cyc EXCEPT !.same = (cyc.same /\ sessionNumber = cyc.cmp)]
  /\ lastSession' = sessionNumber
  /\ pc' = "grab"
  /\ UNCHANGED <<connected, originalBottleImage, originalBottleImageWithColour,
                 BottleDetected, sessionNumber, ExitScript, EjectBottle, imageFile,
                 nDisconnect, bottleDone, scn>>
  /\ seenNonZero' = (seenNonZero \/ sessionNumber # 0)

\* main.py:90, 36-38  grabFrame(): originalBottleImage = cv2.imread(imageName)
LoopGrabFrame ==
  /\ pc = "grab"
  /\ originalBottleImage' = imageFile
  /\ cyc' = [cyc EXCEPT !.grab = B2N(imageFile.ok)]
  /\ pc' = "classify"
  /\ UNCHANGED <<lastSession, connected, originalBottleImageWithColour,
                 BottleDetected, sessionNumber, ExitScript, EjectBottle, imageFile,
                 nDisconnect, bottleDone, scn>>
  /\ UNCHANGED seenNonZero

\* main.py:92, 41-48  classifyCameraImage() reads imageName again; adaptiveThreshold
\* raises on None and nothing catches it
LoopClassify ==
  /\ pc = "classify"
  /\ IF ~imageFile.ok
     THEN /\ pc' = "crashed"
          /\ cyc' = [cyc EXCEPT !.img = imageFile]
          /\ UNCHANGED <<originalBottleImageWithColour, scn>>
     ELSE LET r == classifyCameraImage(imageFile.contours)
              c == [cyc EXCEPT !.img = imageFile, !.cls = B2N(r),
                               !.lbl = B2N(check_label(imageFile.contours)),
                               !.exam = Examined(imageFile.contours),
                               !.drawn = Drawn(imageFile.contours)] IN
          /\ cyc' = c
          /\ originalBottleImageWithColour' =
               originalBottleImageWithColour \cup Drawn(imageFile.contours)
          /\ IF r
             THEN pc' = "eject" /\ scn' = scn
             ELSE pc' = "exitCheck" /\ scn' = ScnEnd(c)
  /\ UNCHANGED <<lastSession, connected, originalBottleImage,
                 BottleDetected, sessionNumber, ExitScript, EjectBottle, imageFile,
                 nDisconnect, bottleDone>>
  /\ UNCHANGED seenNonZero

\* mutant: the node is toggled instead of set
LoopActivateEject_Toggle ==
  /\ pc = "eject"
  /\ EjectBottle' = ~EjectBottle
  /\ LET c == [cyc EXCEPT !.ej = TRUE] IN
       /\ cyc' = c
       /\ scn' = ScnEnd(c)
  /\ pc' = "exitCheck"
  /\ UNCHANGED <<lastSession, connected, originalBottleImage, originalBottleImageWithColour,
                 BottleDetected, sessionNumber, ExitScript, imageFile,
                 nDisconnect, bottleDone>>
  /\ UNCHANGED seenNonZero

\* main.py:93, 30-33  activateEject(): EjectBottle := True
LoopActivateEject ==
  /\ pc = "eject"
  /\ EjectBottle' = TRUE
  /\ LET c == [cyc EXCEPT !.ej = TRUE] IN
       /\ cyc' = c
       /\ scn' = ScnEnd(c)
  /\ pc' = "exitCheck"
  /\ UNCHANGED <<lastSession, connected, originalBottleImage, originalBottleImageWithColour,
                 BottleDetected, sessionNumber, ExitScript, imageFile,
                 nDisconnect, bottleDone>>
  /\ UNCHANGED seenNonZero

Loop ==
  \/ LoopExitScript
  \/ LoopCheckSensor
  \/ LoopCompareSession
  \/ LoopCheckFive
  \/ LoopAssignSession
  \/ LoopGrabFrame
  \/ LoopClassify
  \/ LoopActivateEject

\* ------------------------------------------------- controller and file system
\* a new bottle: the session counter is incremented, wrapping to 0 after 5
PLCNextBottle ==
  /\ sessionNumber' = IF sessionNumber = WrapSession THEN 0 ELSE sessionNumber + 1
  /\ bottleDone' = FALSE
  /\ cyc' = [cyc EXCEPT !.held = FALSE]
  /\ UNCHANGED <<pc, lastSession, connected, originalBottleImage,
                 originalBottleImageWithColour, BottleDetected, ExitScript, EjectBottle,
                 imageFile, nDisconnect, scn>>
  /\ UNCHANGED seenNonZero

\* the presence sensor changes
PLCSensor ==
  /\ BottleDetected' = ~BottleDetected
  /\ bottleDone' = FALSE
  /\ cyc' = [cyc EXCEPT !.held = FALSE]
  /\ UNCHANGED <<pc, lastSession, connected, originalBottleImage,
                 originalBottleImageWithColour, sessionNumber, ExitScript, EjectBottle,
                 imageFile, nDisconnect, scn>>
  /\ UNCHANGED seenNonZero

\* the exit request is set or withdrawn
PLCExit ==
  /\ ExitScript' = ~ExitScript
  /\ UNCHANGED <<pc, lastSession, connected, originalBottleImage,
                 originalBottleImageWithColour, BottleDetected, sessionNumber, EjectBottle,
                 imageFile, cyc, nDisconnect, bottleDone, scn>>
  /\ UNCHANGED seenNonZero

\* the file under imageName is replaced or removed
FileChange ==
  /\ imageFile' \in LoopImages \ {imageFile}
  /\ UNCHANGED <<pc, lastSession, connected, originalBottleImage,
                 originalBottleImageWithColour, BottleDetected, sessionNumber, ExitScript,
                 EjectBottle, cyc, nDisconnect, bottleDone, scn>>
  /\ UNCHANGED seenNonZero

Next ==
  \/ LoopExitScript
  \/ LoopCheckSensor
  \/ LoopCompareSession
  \/ LoopCheckFive
  \/ LoopAssignSession
  \/ LoopGrabFrame
  \/ LoopClassify
  \/ LoopActivateEject
  \/ PLCNextBottle
  \/ PLCSensor
  \/ PLCExit
  \/ FileChange

Spec == Init /\ [][Next]_vars

\* the loop never stops between two statements
LiveSpec == Init /\ [][Next]_vars /\ WF_vars(Loop)

\* ------------------------------------------------ classifier specification
\* what earlier calls of check_label may have painted on the overlay
PriorPaint == {{}, {[nv |-> 4, area |-> 19999, parea |-> 1001]}}

\* classifyCameraImage is about to run in an iteration that saw session 1
InitClassifier ==
  /\ pc = "classify"
  /\ lastSession = 1
  /\ connected = TRUE
  /\ imageFile \in ClassifierImages
  /\ originalBottleImage = imageFile
  /\ originalBottleImageWithColour \in PriorPaint
  /\ BottleDetected = TRUE
  /\ sessionNumber = 1
  /\ ExitScript = FALSE
  /\ EjectBottle = FALSE
  /\ cyc = [NewCycle(0) EXCEPT !.exit = 0, !.held = TRUE, !.sens = 1, !.cmp = 1,
                               !.grab = B2N(imageFile.ok)]
  /\ nDisconnect = 0
  /\ bottleDone = TRUE
  /\ scn = 0
  /\ seenNonZero = TRUE

NextClassifier == LoopClassify \/ LoopActivateEject

ClassifierSpec == InitClassifier /\ [][NextClassifier]_vars

\* ------------------------------------------------------------------ claims
InCycle == pc \in {"chk5", "assign", "grab", "classify", "eject"}
Updated == pc \in {"grab", "classify", "eject", "exitCheck", "crashed"}
Tracked(s) == IF s = 5 THEN 0 ELSE s

\* C1: while the controller keeps reporting one bottle (sensor flag and session id
\* unchanged), the loop starts at most one capture/classify cycle for it: once a cycle
\* was started for the bottle now reported, the session comparison does not start another.
C1_AtMostOneCyclePerBottle ==
  [][(bottleDone /\ pc = "cmpSession") => pc' # "chk5"]_vars

\* C2: an iteration that ran from its exit check to its end while the controller held
\* one session id with the sensor flag true leaves that bottle with a capture/classify
\* cycle started for it.
C2_NoBottleMissed ==
  (pc = "exitCheck" /\ cyc.exit = 0 /\ cyc.held) => bottleDone

\* C3: with the sensor flag read true and the session reads of the iteration returning
\* cur, the iteration processes iff cur differs from the tracked value; after processing
\* the tracked value is 0 for cur = 5 and cur otherwise; without processing it is unchanged.
C3_SessionTrackerStep ==
  (cyc.sens = 1 /\ cyc.cmp # -1) =>
    /\ (InCycle \/ Processed(cyc)) <=> (cyc.cmp # cyc.last0)
    /\ (cyc.cmp = cyc.last0) => (lastSession = cyc.last0)
    /\ (cyc.cmp # cyc.last0 /\ cyc.same /\ Updated) => (lastSession = Tracked(cyc.cmp))

C3_Witness ==
  /\ pc = "grab" /\ cyc.sens = 1 /\ cyc.same
  /\ cyc.cmp = 5 /\ cyc.last0 = 4 /\ lastSession = 0

\* C4: an iteration that reads the exit flag true disconnects and halts at once: it reads
\* neither sensor nor session, captures and classifies nothing, writes nothing to the
\* controller, leaves the tracked session value alone, and nothing happens afterwards.
C4_ExitHalts ==
  /\ [](pc = "done" =>
          /\ cyc.exit = 1 /\ ~connected
          /\ cyc.sens = -1 /\ cyc.cmp = -1 /\ cyc.grab = -1 /\ cyc.cls = -1 /\ ~cyc.ej
          /\ lastSession = cyc.last0)
  /\ [][(pc = "exitCheck" /\ ExitScript /\ pc' # pc) =>
          /\ pc' = "done" /\ ~connected'
          /\ UNCHANGED <<lastSession, EjectBottle, originalBottleImage,
                         originalBottleImageWithColour>>]_vars
  /\ [][pc = "done" => UNCHANGED progVars]_vars

C4_Witness ==
  pc = "done" /\ ~connected /\ cyc.exit = 1 /\ lastSession = 4 /\ EjectBottle

\* C5: check_label reports a label iff some contour has a 4-vertex polygon and an area
\* strictly between 1000 and 20000; 3- and 5-vertex contours alone never give a label,
\* nor does the empty list; classifyCameraImage is truthy iff check_label found no label.
C5_ClassifierVerdict ==
  (cyc.lbl # -1) =>
    LET cs == cyc.img.contours
        qualifies(i) == cs[i].nv = 4 /\ cs[i].area > 1000 /\ cs[i].area < 20000
    IN /\ (cyc.lbl = 1) <=> (\E i \in 1..Len(cs) : qualifies(i))
       /\ (\A i \in 1..Len(cs) : cs[i].nv \in {3, 5}) => (cyc.lbl = 0)
       /\ (cs = <<>>) => (cyc.lbl = 0)
       /\ (cyc.cls = 1) <=> (cyc.lbl = 0)

C5_Witness ==
  /\ cyc.lbl = 1 /\ cyc.cls = 0 /\ Len(cyc.img.contours) = 2
  /\ cyc.img.contours[1].nv = 5 /\ cyc.img.contours[2].nv = 4

\* C6: a single 4-vertex contour of area exactly 1000 or exactly 20000 is rejected, one
\* of area 1001 or 19999 is accepted.
C6_AreaBoundary ==
  (cyc.lbl # -1 /\ Len(cyc.img.contours) = 1 /\ cyc.img.contours[1].nv = 4) =>
    LET a == cyc.img.contours[1].area
    IN /\ (a \in {1000, 20000}) => (cyc.lbl = 0 /\ cyc.drawn = {})
       /\ (a \in {1001, 19999}) => (cyc.lbl = 1 /\ cyc.drawn = {cyc.img.contours[1]})

C6_Witness ==
  /\ cyc.lbl = 0 /\ Len(cyc.img.contours) = 1
  /\ cyc.img.contours[1].nv = 4 /\ cyc.img.contours[1].area = 20000

\* C7: when the first four iterations see the sensor flag true and session ids 3, 4, 4, 5,
\* with a label frame at 3, a bare frame at 4 and a label frame at 5, the eject command is
\* written in the second iteration and in no other, and the third iteration (the duplicate
\* 4) captures, classifies and ejects nothing.
C7_Scenario ==
  (pc = "exitCheck" /\ scn >= 1) =>
    /\ cyc.ej <=> (scn = 2)
    /\ EjectBottle <=> (scn >= 2)
    /\ (scn = 3) => (cyc.grab = -1 /\ cyc.cls = -1 /\ ~cyc.ej)
    /\ (scn # 3) => (cyc.grab # -1 /\ cyc.cls # -1)

C7_Witness ==
  pc = "exitCheck" /\ scn = 4 /\ EjectBottle /\ lastSession = 0

\* C8: when the image read of grabFrame yields no image, the iteration neither crashes
\* nor classifies nor ejects.
C8_AcquisitionFailureLocal ==
  (cyc.grab = 0) => (pc # "crashed" /\ cyc.cls = -1 /\ ~cyc.ej)

\* C9: if the exit flag is eventually true for good and no call raises, the loop reaches
\* the terminated state; an exit check that finds the flag true halts at once; the loop
\* disconnects exactly once when it halts and never halts on a flag read false.
C9_Termination ==
  /\ (<>[]ExitScript /\ [](pc # "crashed")) => <>(pc = "done")
  /\ [][(pc = "exitCheck" /\ ExitScript /\ pc' # pc) => pc' = "done"]_vars
  /\ [](nDisconnect = IF pc = "done" THEN 1 ELSE 0)
  /\ [](pc = "done" => cyc.exit = 1)
  /\ [][(pc' = "done" /\ pc # "done") => ExitScript]_vars

C9_Witness ==
  pc = "done" /\ nDisconnect = 1 /\ ExitScript /\ cyc.last0 # 0

\* C10: after a processing iteration the tracked value is 0 if s = 5 and s otherwise,
\* s being the session id that was compared with the tracked value.
C10_SingleSessionRead ==
  (cyc.cmp # -1 /\ cyc.cmp # cyc.last0 /\ Updated) => (lastSession = Tracked(cyc.cmp))

\* C11: the eject command is written in an iteration iff the iteration classified and
\* check_label found no label; an iteration that found a label or did not classify
\* writes nothing; a missing label is followed by the write before the next poll begins.
C11_EjectIffMissing ==
  /\ cyc.ej => (cyc.lbl = 0 /\ cyc.cls = 1 /\ EjectBottle)
  /\ (pc = "eject") <=> (cyc.lbl = 0 /\ ~cyc.ej)
  /\ (cyc.lbl # 0) => ~cyc.ej
  /\ (pc \in {"exitCheck", "sensorCheck", "cmpSession", "done"} /\ cyc.lbl = 0) => cyc.ej

C11_Witness ==
  pc = "exitCheck" /\ cyc.ej /\ cyc.lbl = 0 /\ cyc.img = BareFrame

\* C12: within an iteration the steps come in the order exit check, sensor check,
\* session comparison, capture, classification, eject; each step has the earlier ones of
\* the same iteration behind it, and the next exit check comes only after the last step.
CycleOrder ==
  {<<"exitCheck", "sensorCheck">>, <<"exitCheck", "done">>,
   <<"sensorCheck", "cmpSession">>, <<"sensorCheck", "exitCheck">>,
   <<"cmpSession", "chk5">>, <<"cmpSession", "exitCheck">>,
   <<"chk5", "assign">>, <<"chk5", "grab">>, <<"assign", "grab">>,
   <<"grab", "classify">>,
   <<"classify", "eject">>, <<"classify", "exitCheck">>, <<"classify", "crashed">>,
   <<"eject", "exitCheck">>}

C12_CycleOrdering ==
  /\ [][pc' # pc => <<pc, pc'>> \in CycleOrder]_vars
  /\ [](/\ cyc.sens # -1 => cyc.exit = 0
        /\ cyc.cmp # -1 => cyc.sens = 1
        /\ cyc.grab # -1 => cyc.cmp # -1
        /\ (cyc.cls # -1 \/ pc = "crashed") => cyc.grab # -1
        /\ cyc.ej => cyc.cls # -1
        /\ pc = "grab" => cyc.cmp # -1
        /\ pc = "classify" => cyc.grab # -1
        /\ pc = "eject" => cyc.cls # -1)

C12_Witness ==
  /\ pc = "eject" /\ cyc.exit = 0 /\ cyc.sens = 1 /\ cyc.cmp = 2
  /\ cyc.grab = 1 /\ cyc.cls = 1 /\ ~cyc.ej

\* C13: a capture/classify cycle is started only in an iteration that read the sensor flag
\* true and a session id different from the tracked value; an iteration that read the
\* sensor flag false, or an equal session id, goes back to the exit check with the tracked
\* value unchanged, nothing captured, nothing classified, nothing written.
C13_GateOnSensorAndSession ==
  /\ []((InCycle \/ Processed(cyc)) => (cyc.sens = 1 /\ cyc.cmp # -1 /\ cyc.cmp # cyc.last0))
  /\ []((cyc.sens = 0 \/ (cyc.cmp # -1 /\ cyc.cmp = cyc.last0)) =>
          /\ pc = "exitCheck" /\ lastSession = cyc.last0
          /\ cyc.grab = -1 /\ cyc.cls = -1 /\ ~cyc.ej
          /\ cyc.sens = 0 => cyc.cmp = -1)
  /\ [][((pc = "sensorCheck" /\ ~BottleDetected) \/ (pc = "cmpSession" /\ sessionNumber = lastSession))
          /\ pc' # pc
        => /\ pc' = "exitCheck"
           /\ UNCHANGED <<lastSession, EjectBottle, originalBottleImage,
                          originalBottleImageWithColour, connected>>]_vars

C13_Witness ==
  pc = "exitCheck" /\ cyc.sens = 0 /\ sessionNumber # lastSession /\ BottleDetected

\* C14: lastSession starts at 0, so as long as every session read has returned 0, no
\* iteration captures, classifies or ejects, even with the sensor flag true: the bottle
\* reported with session id 0 gets no cycle.
C14_StartupSentinelCollision ==
  ~seenNonZero =>
    /\ lastSession = 0 /\ ~InCycle /\ pc # "crashed"
    /\ cyc.grab = -1 /\ cyc.cls = -1 /\ ~cyc.ej
    /\ originalBottleImage = NoImage /\ originalBottleImageWithColour = {}
    /\ ~EjectBottle /\ ~bottleDone

C14_Witness ==
  /\ ~seenNonZero /\ pc = "exitCheck" /\ cyc.held
  /\ cyc.sens = 1 /\ cyc.cmp = 0 /\ BottleDetected /\ sessionNumber = 0

\* C15: check_label looks at the contours in the order given and stops at the first one
\* with 4 vertices and an area in range: it examines no contour after it and paints that
\* one contour only; with no accepted contour it examines all and paints nothing.  The
\* verdict is the same whatever is on the overlay.
C15_FirstMatchWins ==
  (cyc.lbl # -1) =>
    LET cs == cyc.img.contours
        ok(i) == cs[i].nv = 4 /\ cs[i].area > 1000 /\ cs[i].area < 20000
        hits == {i \in 1..Len(cs) : ok(i)}
    IN /\ (hits # {}) =>
            /\ cyc.lbl = 1
            /\ \A i \in hits : cyc.exam <= i
            /\ cyc.exam \in hits
            /\ cyc.drawn = {cs[cyc.exam]}
       /\ (hits = {}) => (cyc.lbl = 0 /\ cyc.exam = Len(cs) /\ cyc.drawn = {})
       /\ cyc.drawn \subseteq originalBottleImageWithColour

C15_Witness ==
  /\ cyc.lbl = 1 /\ cyc.exam = 1 /\ Len(cyc.img.contours) = 2
  /\ cyc.img.contours[2].nv = 4 /\ cyc.img.contours[2].area = 19999
  /\ cyc.img.contours[1].area = 1001
  /\ cyc.drawn = {cyc.img.contours[1]}
  /\ originalBottleImageWithColour # cyc.drawn

\* C16 as claimed: the area held against (1000, 20000) is the area of the simplified
\* polygon, so a single 4-vertex contour is accepted iff its polygon's area is in range.
C16_PolygonAreaDecides ==
  (cyc.lbl # -1 /\ Len(cyc.img.contours) = 1 /\ cyc.img.contours[1].nv = 4) =>
    ((cyc.lbl = 1) <=> (1000 < cyc.img.contours[1].parea /\ cyc.img.contours[1].parea < 20000))

\* C16 amended: the area held against (1000, 20000) is cv2.contourArea of the original
\* contour; where the contour's area and its polygon's area lie on different sides of a
\* bound, the decision follows the contour's area.
C16_ContourAreaDecides ==
  (cyc.lbl # -1 /\ Len(cyc.img.contours) = 1 /\ cyc.img.contours[1].nv = 4) =>
    LET c == cyc.img.contours[1]
        in(a) == 1000 < a /\ a < 20000
    IN (in(c.area) # in(c.parea)) => ((cyc.lbl = 1) <=> in(c.area))

C16_Witness ==
  /\ cyc.lbl = 1 /\ Len(cyc.img.contours) = 1
  /\ cyc.img.contours[1] = [nv |-> 4, area |-> 1001, parea |-> 1000]

\* C17: with the controller's session ids in 0..5, the tracked value lastSession is in
\* 0..4 in every reachable state.
C17_LastSessionBelowFive ==
  lastSession \in 0..4

\* C18: a step of the program leaves the sensor, exit and session nodes as they are, and
\* changes the eject node only by the write of True in activateEject; once the eject node
\* is True no step of the program makes it False.
C18_WriteDiscipline ==
  /\ [][pc' # pc => UNCHANGED <<BottleDetected, ExitScript, sessionNumber>>]_vars
  /\ [][EjectBottle' # EjectBottle => (pc = "eject" /\ pc' = "exitCheck" /\ EjectBottle')]_vars
  /\ [][pc = "eject" /\ pc' # pc => EjectBottle']_vars
  /\ [][EjectBottle => EjectBottle']_vars

C18_Witness ==
  pc = "exitCheck" /\ EjectBottle /\ cyc.lbl = 1 /\ ~cyc.ej
====
